---- MODULE Spec2Model ----
(***************************************************************************)
(* Model of the corpus application in src/app.py: the texts and users      *)
(* relations, init_database and the scripts that run it, the account,      *)
(* contribution and moderation handlers that write the store, and the      *)
(* search, statistics and detail handlers that read it.                    *)
(*                                                                         *)
(* Text is modelled at the character level: a string is a sequence of      *)
(* one-character strings, so that strip(), lower(), split(), LIKE and      *)
(* str.count() are computed as the code computes them.                     *)
(*                                                                         *)
(* Abstractions, stated once:                                              *)
(*  - the five sample texts of init_database keep their category,          *)
(*    word_count, unique_words and status; their six text fields are       *)
(*    shortened to a few leading words;                                    *)
(*  - a request carries its session cookie as an input: any session that   *)
(*    login can issue for one of the three default users, or none; in      *)
(*    SpecAccounts the cookie is the variable session, set by login;       *)
(*  - connections counts the store connections that finished requests      *)
(*    have left open; the session keeps user_id and role, not username;    *)
(*  - the SQLite and the PostgreSQL branch of every handler issue the same *)
(*    statement; LIKE (SQLite) and ILIKE (PostgreSQL) agree on the ASCII   *)
(*    characters used here, so one branch is modelled;                     *)
(*  - the page parameter of a search is 1 (its default) or drawn from      *)
(*    1..MaxPage; the columns source and date_added, which no handler      *)
(*    modelled here reads, are left out of a record.                       *)
(***************************************************************************)
EXTENDS Integers, Sequences, FiniteSets, TLC

VARIABLES
  texts,        \* the texts relation, a row per id
  resp,         \* the request in hand: its call, or its answer when it is over
  users,        \* the users relation, a row per id
  session,      \* the session cookie of the browser that logs in and out
  connections   \* the store connections that are open

vars == <<texts, resp, users, session, connections>>

\* what the requests of a client with a session of its own, and the calls of
\* a helper, leave as it is
accounts == <<users, session, connections>>

(***************************************************************************)
(* Bounds of the model.                                                    *)
(***************************************************************************)
MaxTexts == 6
MaxTextsPages == 15
MaxPage == 2

(***************************************************************************)
(* Characters and strings.                                                 *)
(***************************************************************************)
IsSpace(c) == c = " "

\* str.lower() / the ASCII case folding of LIKE, on the letters in use
Lower(c) ==
  CASE c = "A" -> "a"
    [] c = "H" -> "h"
    [] c = "I" -> "i"
    [] c = "K" -> "k"
    [] c = "L" -> "l"
    [] c = "P" -> "p"
    [] c = "T" -> "t"
    [] c = "U" -> "u"
    [] OTHER -> c

\* a list with the items of f, each computed once
List(f) == SubSeq(f, 1, Len(f))

LowerStr(s) == List([i \in 1..Len(s) |-> Lower(s[i])])

RECURSIVE LStrip(_)
LStrip(s) == IF s # <<>> /\ IsSpace(Head(s)) THEN LStrip(Tail(s)) ELSE s

RECURSIVE RStrip(_)
RStrip(s) ==
  IF s # <<>> /\ IsSpace(s[Len(s)]) THEN RStrip(SubSeq(s, 1, Len(s) - 1)) ELSE s

\* str.strip()
Strip(s) == RStrip(LStrip(s))

\* str.split(): the maximal runs of non-space characters, left to right
Split(s) ==
  LET IsStart(i) == ~IsSpace(s[i]) /\ (i = 1 \/ IsSpace(s[i - 1]))
      starts == SelectSeq([i \in 1..Len(s) |-> i], IsStart)
      RunEnd(i) == CHOOSE j \in i..Len(s) :
                     /\ \A m \in i..j : ~IsSpace(s[m])
                     /\ (j = Len(s) \/ IsSpace(s[j + 1]))
  IN  List([k \in 1..Len(starts) |-> SubSeq(s, starts[k], RunEnd(starts[k]))])

\* f"{a} {b}"
Join2(a, b) == a \o <<" ">> \o b

\* s[i:i+n] == t
StartsAt(s, i, t) ==
  /\ i + Len(t) - 1 <= Len(s)
  /\ \A j \in 1..Len(t) : s[i + j - 1] = t[j]

\* str.count(t) for a non-empty t: occurrences counted left to right, not overlapping
\* the scan over the start positions i..k: the occurrences counted, and the
\* position at which the scan goes on (behind the occurrence, or one further
\* where there is none); the range is scanned by halves, the second half
\* from where the scan of the first one ended
RECURSIVE CountIn(_, _, _, _)
CountIn(s, i, k, t) ==
  IF i > k THEN [count |-> 0, next |-> i]
  ELSE IF i = k
       THEN (IF StartsAt(s, i, t) THEN [count |-> 1, next |-> i + Len(t)]
             ELSE [count |-> 0, next |-> i + 1])
       ELSE LET mid == (i + k) \div 2
                left == CountIn(s, i, mid, t)
                right == CountIn(s, IF left.next > mid THEN left.next
                                    ELSE mid + 1, k, t)
            IN  [count |-> left.count + right.count, next |-> right.next]

StrCount(s, t) == CountIn(s, 1, Len(s), t).count

\* SQL: text LIKE pat, with % any run of characters, _ any one character, and
\* every other character compared without regard to ASCII case.
\* LikeAt: s from position i on matches pat from position j on (both folded)
RECURSIVE LikeAt(_, _, _, _)
LikeAt(s, i, pat, j) ==
  IF j > Len(pat) THEN i > Len(s)
  ELSE IF pat[j] = "%"
       THEN \/ j = Len(pat)
            \/ \E k \in i..(Len(s) + 1) : LikeAt(s, k, pat, j + 1)
       ELSE /\ i <= Len(s)
            /\ (pat[j] = "_" \/ pat[j] = s[i])
            /\ LikeAt(s, i + 1, pat, j + 1)

Like(s, pat) == LikeAt(LowerStr(s), 1, LowerStr(pat), 1)

(***************************************************************************)
(* The category vocabulary.                                                *)
(***************************************************************************)
K_izaga == <<"i","z","a","g","a">>
K_proverbs == <<"p","r","o","v","e","r","b","s">>
K_izibongo == <<"i","z","i","b","o","n","g","o">>
K_praise_poetry == <<"p","r","a","i","s","e"," ","p","o","e","t","r","y">>
K_izisho == <<"i","z","i","s","h","o">>
K_idioms == <<"i","d","i","o","m","s">>
K_philosophy == <<"p","h","i","l","o","s","o","p","h","y">>
K_ifilosofi == <<"i","f","i","l","o","s","o","f","i">>
K_folktale == <<"f","o","l","k","t","a","l","e">>
K_inganekwane == <<"i","n","g","a","n","e","k","w","a","n","e">>
K_history == <<"h","i","s","t","o","r","y">>
K_umlando == <<"u","m","l","a","n","d","o">>
K_other == <<"o","t","h","e","r">>
K_okunye == <<"o","k","u","n","y","e">>

\* the dict, in its insertion order
CATEGORY_MAP ==
  << [id |-> K_izaga,      en |-> K_proverbs,      zu |-> K_izaga],
     [id |-> K_izibongo,   en |-> K_praise_poetry, zu |-> K_izibongo],
     [id |-> K_izisho,     en |-> K_idioms,        zu |-> K_izisho],
     [id |-> K_philosophy, en |-> K_philosophy,    zu |-> K_ifilosofi],
     [id |-> K_folktale,   en |-> K_folktale,      zu |-> K_inganekwane],
     [id |-> K_history,    en |-> K_history,       zu |-> K_umlando],
     [id |-> K_other,      en |-> K_other,         zu |-> K_okunye] >>

\* category_query = None
NoCategory == <<"-">>

(***************************************************************************)
(* The texts relation.  A record is a row of texts; its id is its position *)
(* in the sequence (AUTOINCREMENT / SERIAL, and no handler deletes a row). *)
(* user_id 0 stands for NULL.                                              *)
(***************************************************************************)
Sample1 ==
  [ title |-> <<"I","n","d","l","e","l","a">>,
    title_en |-> <<"A"," ","p","a","t","h">>,
    content |-> <<"I","s","a","g","a">>,
    content_en |-> <<"A"," ","s","a","y","i","n","g">>,
    full_content |-> <<"I","n","d","l","e","l","a"," ","i","b","u","z","w","a">>,
    full_content_en |-> <<"A"," ","p","a","t","h"," ","i","s"," ","a","s","k","e","d">>,
    category |-> <<"i","z","a","g","a">>,
    word_count |-> 60, unique_words |-> 45,
    user_id |-> 0, status |-> "approved" ]

Sample2 ==
  [ title |-> <<"U","m","u","n","t","u">>,
    title_en |-> <<"A"," ","p","e","r","s","o","n">>,
    content |-> <<"I","s","a","g","a">>,
    content_en |-> <<"A"," ","s","a","y","i","n","g">>,
    full_content |-> <<"U","m","u","n","t","u"," ","n","g","u","m","u","n","t","u">>,
    full_content_en |-> <<"A"," ","p","e","r","s","o","n"," ","i","s">>,
    category |-> <<"i","z","a","g","a">>,
    word_count |-> 55, unique_words |-> 40,
    user_id |-> 0, status |-> "approved" ]

Sample3 ==
  [ title |-> <<"I","z","i","b","o","n","g","o">>,
    title_en |-> <<"P","r","a","i","s","e">>,
    content |-> <<"U","b","u","l","a","w","u">>,
    content_en |-> <<"T","h","e"," ","m","a","g","i","c">>,
    full_content |-> <<"I","z","i","b","o","n","g","o"," ","z","e","n","k","o","s","i">>,
    full_content_en |-> <<"P","r","a","i","s","e"," ","o","f"," ","k","i","n","g">>,
    category |-> <<"i","z","i","b","o","n","g","o">>,
    word_count |-> 80, unique_words |-> 55,
    user_id |-> 0, status |-> "approved" ]

Sample4 ==
  [ title |-> <<"I","s","i","s","h","o">>,
    title_en |-> <<"T","h","e"," ","s","a","y","i","n","g">>,
    content |-> <<"L","e","s","i"," ","i","s","i","s","h","o">>,
    content_en |-> <<"T","h","i","s"," ","s","a","y","i","n","g">>,
    full_content |-> <<"I","s","i","s","h","o"," ","s","o","k","u","t","h","i">>,
    full_content_en |-> <<"T","h","e"," ","s","a","y","i","n","g">>,
    category |-> <<"i","z","i","s","h","o">>,
    word_count |-> 50, unique_words |-> 35,
    user_id |-> 0, status |-> "approved" ]

Sample5 ==
  [ title |-> <<"U","b","u","n","t","u"," ","b","o","t","h","o">>,
    title_en |-> <<"H","u","m","a","n","i","t","y">>,
    content |-> <<"U","m","q","o","n","d","o">>,
    content_en |-> <<"T","h","e"," ","c","o","n","c","e","p","t">>,
    full_content |-> <<"U","b","u","n","t","u"," ","b","o","t","h","o">>,
    full_content_en |-> <<"H","u","m","a","n","i","t","y">>,
    category |-> <<"p","h","i","l","o","s","o","p","h","y">>,
    word_count |-> 45, unique_words |-> 30,
    user_id |-> 0, status |-> "approved" ]

\* sample_texts of init_database, inserted with status 'approved'
sample_texts == <<Sample1, Sample2, Sample3, Sample4, Sample5>>

(***************************************************************************)
(* Inputs: the forms a contributor posts, the raw queries of a search.     *)
(***************************************************************************)
FormKing ==
  [ title |-> <<" ","I","n","k","o","s","i"," ">>,
    title_en |-> <<"K","i","n","g">>,
    content |-> <<"i","z","a","g","a"," ","u","b","u","n","t","u">>,
    content_en |-> <<"h","i","s"," ","w","o","r","d","s">>,
    full_content |-> <<>>,
    full_content_en |-> <<"o","l","d"," ","k","i","n","g">>,
    category |-> <<"h","i","s","t","o","r","y">> ]

FormPerson ==
  [ title |-> <<"U","m","u","n","t","u">>,
    title_en |-> <<"P","e","r","s","o","n">>,
    content |-> <<"u","m","u","n","t","u">>,
    content_en |-> <<"a"," ","p","e","r","s","o","n">>,
    full_content |-> <<"u","m","u","n","t","u"," ","n","g","u","m","u","n","t","u">>,
    full_content_en |-> <<>>,
    category |-> <<"i","z","a","g","a">> ]

FormNoTitle ==
  [ title |-> <<" "," ">>,
    title_en |-> <<"U","n","t","i","t","l","e","d">>,
    content |-> <<"l","u","t","h","o">>,
    content_en |-> <<"n","o","t","h","i","n","g">>,
    full_content |-> <<>>,
    full_content_en |-> <<>>,
    category |-> <<"o","t","h","e","r">> ]

Q_izaga_upper == <<"I","z","a","g","a">>
Q_izaga_padded == <<" ","i","z","a","g","a"," ">>
Q_proverbs == <<"P","r","o","v","e","r","b","s">>
Q_old == <<"o","l","d">>
Q_histor == <<"h","i","s","t","o","r">>
Q_izaga_history == <<"i","z","a","g","a"," ","h","i","s","t","o","r","y">>
Q_izaga_ubuntu == <<"i","z","a","g","a"," ","u","b","u","n","t","u">>
Q_king_izaga == <<"k","i","n","g"," ","i","z","a","g","a">>
Q_empty == <<>>
Q_blank == <<" ">>
Q_a == <<"a">>
Q_zzz == <<"z","z","z">>

Forms == {FormKing, FormPerson, FormNoTitle}

Queries ==
  { K_izaga, Q_izaga_upper, Q_izaga_padded, Q_proverbs, Q_old, Q_histor,
    Q_izaga_history, Q_izaga_ubuntu, Q_king_izaga, Q_empty, Q_blank }

PagesQueries == { K_izaga, Q_a, Q_zzz, Q_empty }

PageArgQueries == { K_izaga, Q_empty }

Methods == {"GET", "POST"}

\* the session of a request: none, or the one login issues for a default user
\* (users_data of init_database: admin, manager, user, with ids 1, 2, 3)
NoSession == [user_id |-> 0, role |-> "none"]

AdminSession == [user_id |-> 1, role |-> "admin"]
ManagerSession == [user_id |-> 2, role |-> "manager"]
UserSession == [user_id |-> 3, role |-> "user"]

Sessions == {NoSession, AdminSession, ManagerSession, UserSession}

\* the sessions a contribution is posted with
Contributors == {NoSession, UserSession}

\* werkzeug's generate_password_hash and check_password_hash: the hash is not
\* the password, and a password checks against the hashes made from it only
generate_password_hash(password) == <<"p","b","k","d","f","2",":">> \o password

check_password_hash(pwhash, password) ==
  pwhash = generate_password_hash(password)

U_admin == <<"a","d","m","i","n">>
U_manager == <<"m","a","n","a","g","e","r">>
U_user == <<"u","s","e","r">>
AtCorpus == <<"@","c","o","r","p","u","s",".","c","o","m">>
OneTwoThree == <<"1","2","3">>

\* users_data of init_database
users_data ==
  << [username |-> U_admin, email |-> U_admin \o AtCorpus,
      password_hash |-> generate_password_hash(U_admin \o OneTwoThree),
      role |-> "admin"],
     [username |-> U_manager, email |-> U_manager \o AtCorpus,
      password_hash |-> generate_password_hash(U_manager \o OneTwoThree),
      role |-> "manager"],
     [username |-> U_user, email |-> U_user \o AtCorpus,
      password_hash |-> generate_password_hash(U_user \o OneTwoThree),
      role |-> "user"] >>

\* the forms posted to /register; the handler reads username, email and
\* password, whatever else the form holds
U_thandi == <<"t","h","a","n","d","i">>

RegThandi ==
  [ username |-> <<" ">> \o U_thandi, email |-> U_thandi \o AtCorpus,
    password |-> <<" ","s","e","c","r","e","t","1"," ">>, role |-> "user" ]

RegAsManager ==
  [ username |-> <<"s","i","p","h","o">>, email |-> <<"s","@","c",".","z","a">>,
    password |-> <<"s","i","p","h","o","9","9">>, role |-> "manager" ]

RegShortPassword ==
  [ username |-> <<"z","o","d","w","a">>, email |-> <<"z","@","c",".","z","a">>,
    password |-> <<" ","a","b","c","d","e"," ">>, role |-> "user" ]

RegTakenName ==
  [ username |-> U_admin, email |-> <<"a","@","c",".","z","a">>,
    password |-> <<"a","d","m","i","n","4","5","6">>, role |-> "admin" ]

RegNoEmail ==
  [ username |-> <<"n","o","m","s","a">>, email |-> <<" ">>,
    password |-> <<"n","o","m","s","a","7","7">>, role |-> "user" ]

RegisterForms ==
  {RegThandi, RegAsManager, RegShortPassword, RegTakenName, RegNoEmail}

\* the forms posted to /login
LoginForms ==
  { [username |-> U_admin, password |-> U_admin \o OneTwoThree],
    [username |-> U_manager \o AtCorpus, password |-> U_manager \o OneTwoThree],
    [username |-> U_user, password |-> U_user \o OneTwoThree],
    [username |-> U_admin, password |-> U_user \o OneTwoThree],
    [username |-> U_thandi, password |-> <<"s","e","c","r","e","t","1">>],
    [username |-> <<"s","i","p","h","o">>, password |-> <<"s","i","p","h","o","9","9">>],
    [username |-> <<>>, password |-> <<>>] }

(***************************************************************************)
(* The decorators.                                                         *)
(***************************************************************************)
\* 'user_id' in session
LoggedIn(s) == s # NoSession

\* session.get('role') in ['manager', 'admin']
IsManager(s) == s.role \in {"manager", "admin"}

(***************************************************************************)
(* Responses.  Every handler answers; resp is the last answer.             *)
(***************************************************************************)
Blank(kind) ==
  [ kind |-> kind, query |-> <<>>, results |-> <<>>, total_results |-> 0,
    total_occurrences |-> 0, page |-> 0, total_pages |-> 0,
    is_category_search |-> FALSE, store_queries |-> 0 ]

(***************************************************************************)
(* The statements of search and count_search_occurrences.                  *)
(***************************************************************************)
results_per_page == 10

Min(a, b) == IF a < b THEN a ELSE b

SetMax(S) == CHOOSE m \in S : \A x \in S : x <= m

\* ORDER BY id DESC
RECURSIVE OrderByIdDesc(_)
OrderByIdDesc(S) ==
  IF S = {} THEN <<>>
  ELSE LET m == SetMax(S) IN <<m>> \o OrderByIdDesc(S \ {m})

\* LIMIT limit OFFSET offset, as SQLite runs it: a negative offset is read as 0
\* (PostgreSQL refuses one: see SearchPageArg)
LimitOffset(rows, limit, offset) ==
  LET skip == IF offset < 0 THEN 0 ELSE offset
  IN  SubSeq(rows, skip + 1, Min(Len(rows), skip + limit))

\* mutant: the category branch matching text instead of the category column
CategoryWhere_AsText(r, category_query) ==
  /\ r.status = "approved"
  /\ \/ Like(r.title, <<"%">> \o category_query \o <<"%">>)
     \/ Like(r.content, <<"%">> \o category_query \o <<"%">>)

\* WHERE status = 'approved' AND category = ?
CategoryWhere(r, category_query) ==
  /\ r.status = "approved"
  /\ r.category = category_query

\* mutant: the query split into terms, a row matching when any term matches
TextWhere_AnyTerm(r, search_term) ==
  LET terms == Split(SubSeq(search_term, 2, Len(search_term) - 1)) IN
  /\ r.status = "approved"
  /\ \E n \in 1..Len(terms) :
       LET t == <<"%">> \o terms[n] \o <<"%">> IN
       \/ Like(r.title, t)
       \/ Like(r.title_en, t)
       \/ Like(r.content, t)
       \/ Like(r.content_en, t)
       \/ Like(r.full_content, t)

\* WHERE status = 'approved' AND (title LIKE ? OR title_en LIKE ? OR content LIKE ?
\*                                OR content_en LIKE ? OR full_content LIKE ?)
TextWhere(r, search_term) ==
  /\ r.status = "approved"
  /\ \/ Like(r.title, search_term)
     \/ Like(r.title_en, search_term)
     \/ Like(r.content, search_term)
     \/ Like(r.content_en, search_term)
     \/ Like(r.full_content, search_term)

\* the first category whose key or display names hold query.lower(), or None
RECURSIVE ResolveFrom(_, _)
ResolveFrom(i, q) ==
  IF i > Len(CATEGORY_MAP) THEN NoCategory
  ELSE IF q \in { CATEGORY_MAP[i].id, LowerStr(CATEGORY_MAP[i].en),
                  LowerStr(CATEGORY_MAP[i].zu) }
       THEN CATEGORY_MAP[i].id
       ELSE ResolveFrom(i + 1, q)

CategoryQuery(query) == ResolveFrom(1, LowerStr(query))

\* the ids the WHERE clause of a search selects
Selected(rel, query) ==
  LET category_query == CategoryQuery(query)
      search_term == <<"%">> \o query \o <<"%">>
  IN  IF category_query # NoCategory
      THEN {i \in 1..Len(rel) : CategoryWhere(rel[i], category_query)}
      ELSE {i \in 1..Len(rel) : TextWhere(rel[i], search_term)}

\* mutant: the offset of the next page
Offset_NextPage(page) == page * results_per_page

\* offset = (page - 1) * results_per_page
Offset(page) == (page - 1) * results_per_page

\* the dict built from a fetched row
ResultRow(rel, i) ==
  [ id |-> i, title |-> rel[i].title, title_en |-> rel[i].title_en,
    content |-> rel[i].content, category |-> rel[i].category,
    word_count |-> rel[i].word_count, unique_words |-> rel[i].unique_words ]

\* the combined text of one row in count_search_occurrences
CombinedText(r) ==
  LowerStr(r.title \o <<" ">> \o r.title_en \o <<" ">> \o r.content \o <<" ">>
           \o r.content_en \o <<" ">> \o r.full_content \o <<" ">>
           \o r.full_content_en)

RECURSIVE SumOccurrences(_, _, _)
SumOccurrences(rel, i, q) ==
  IF i > Len(rel) THEN 0
  ELSE (IF rel[i].status = "approved" THEN StrCount(CombinedText(rel[i]), q) ELSE 0)
       + SumOccurrences(rel, i + 1, q)

count_search_occurrences(rel, query) == SumOccurrences(rel, 1, LowerStr(query))

\* mutant: the division without the rounding up
TotalPages_RoundedDown(total_results) == total_results \div results_per_page

\* total_pages = (total_results + results_per_page - 1) // results_per_page
TotalPages(total_results) ==
  (total_results + results_per_page - 1) \div results_per_page

\* query = form['query'].strip() on POST, args['q'] on GET
RequestQuery(method, raw) == IF method = "POST" THEN Strip(raw) ELSE raw

\* the rows of one page, from the ids the WHERE clause selects
FetchRows(rel, selected, page) ==
  LET ids == LimitOffset(OrderByIdDesc(selected), results_per_page, Offset(page))
  IN  [n \in 1..Len(ids) |-> ResultRow(rel, ids[n])]

\* the values search() hands to the template
SearchResponse(rel, method, raw, page) ==
  LET query == RequestQuery(method, raw) IN
  IF query = <<>>
  THEN [ Blank("search") EXCEPT !.page = page, !.total_pages = TotalPages(0) ]
  ELSE LET is_category_search == CategoryQuery(query) # NoCategory
           selected == Selected(rel, query)
           total_results == Cardinality(selected)
       IN  [ kind |-> "search",
             query |-> query,
             results |-> FetchRows(rel, selected, page),
             total_results |-> total_results,
             total_occurrences |->
               IF is_category_search THEN 0
               ELSE count_search_occurrences(rel, query),
             page |-> page,
             total_pages |-> TotalPages(total_results),
             is_category_search |-> is_category_search,
             store_queries |-> IF is_category_search THEN 2 ELSE 3 ]

(***************************************************************************)
(* The handlers.                                                           *)
(***************************************************************************)
\* @login_required search(); the handler reads nothing of the session
Search(logged_in, method, raw, page) ==
  /\ resp' = IF logged_in THEN SearchResponse(texts, method, raw, page)
             ELSE Blank("login")
  /\ UNCHANGED texts

\* the row contribute() inserts for a posted form
NewText(s, form) ==
  LET content == Strip(form.content)
      full_content == Strip(form.full_content)
      words == Split(Join2(content, full_content))
  IN  [ title |-> Strip(form.title),
        title_en |-> Strip(form.title_en),
        content |-> content,
        content_en |-> Strip(form.content_en),
        full_content |-> full_content,
        full_content_en |-> Strip(form.full_content_en),
        category |-> Strip(form.category),
        word_count |-> Len(words),
        unique_words |-> Cardinality({words[i] : i \in 1..Len(words)}),
        user_id |-> s.user_id,
        status |-> "pending" ]

\* all([title, title_en, content, content_en, category])
RequiredFilled(form) ==
  /\ Strip(form.title) # <<>>
  /\ Strip(form.title_en) # <<>>
  /\ Strip(form.content) # <<>>
  /\ Strip(form.content_en) # <<>>
  /\ Strip(form.category) # <<>>

\* @login_required contribute(), POST; cap bounds the size of the relation
Contribute(s, form, cap) ==
  /\ Len(texts) < cap
  /\ IF ~LoggedIn(s)
     THEN resp' = Blank("login") /\ UNCHANGED texts
     ELSE IF ~RequiredFilled(form)
          THEN resp' = Blank("contribute_form") /\ UNCHANGED texts
          ELSE /\ texts' = Append(texts, NewText(s, form))
               /\ resp' = Blank("contribute")

\* mutant: the UPDATE without its WHERE clause
UpdateStatus_EveryRow(rel, text_id, status) ==
  [i \in 1..Len(rel) |-> [rel[i] EXCEPT !.status = status]]

\* UPDATE texts SET status = ? WHERE id = ?
UpdateStatus(rel, text_id, status) ==
  [i \in 1..Len(rel) |->
     IF i = text_id THEN [rel[i] EXCEPT !.status = status] ELSE rel[i]]

\* what @manager_required answers without calling the handler
Refused(s) == IF ~LoggedIn(s) THEN Blank("login") ELSE Blank("home")

\* @manager_required manager_approve(text_id)
ManagerApprove(s, text_id) ==
  IF LoggedIn(s) /\ IsManager(s)
  THEN /\ texts' = UpdateStatus(texts, text_id, "approved")
       /\ resp' = Blank("manager_pending")
  ELSE resp' = Refused(s) /\ UNCHANGED texts

\* mutant: a rejection that sends the text back to the review queue
ManagerReject_ToPending(s, text_id) ==
  IF LoggedIn(s) /\ IsManager(s)
  THEN /\ texts' = UpdateStatus(texts, text_id, "pending")
       /\ resp' = Blank("manager_pending")
  ELSE resp' = Refused(s) /\ UNCHANGED texts

\* @manager_required manager_reject(text_id)
ManagerReject(s, text_id) ==
  IF LoggedIn(s) /\ IsManager(s)
  THEN /\ texts' = UpdateStatus(texts, text_id, "rejected")
       /\ resp' = Blank("manager_pending")
  ELSE resp' = Refused(s) /\ UNCHANGED texts

(***************************************************************************)
(* The accounts: login, logout and register.  register() has no try around *)
(* its statements: when one raises, the calls of conn.close() further down *)
(* are not reached.                                                        *)
(***************************************************************************)
\* the store failing under register(): at get_db_connection, at the SELECT,
\* at the INSERT or at the commit
RegisterFaults == {"none", "connection", "select", "insert", "commit"}

\* SELECT id FROM users WHERE username = ? OR email = ?
UserExists(rel, username, email) ==
  \E i \in 1..Len(rel) : rel[i].username = username \/ rel[i].email = email

\* the row register() inserts
NewUser(username, email, password) ==
  [ username |-> username, email |-> email,
    password_hash |-> generate_password_hash(password), role |-> "user" ]

\* mutant: the role taken from the posted form
Register_RoleOfForm(form, fault, cap) ==
  LET username == Strip(form.username)
      email == Strip(form.email)
      password == Strip(form.password)
  IN
  /\ Len(users) < cap
  /\ UNCHANGED <<texts, session>>
  /\ IF username = <<>> \/ email = <<>> \/ password = <<>> \/ Len(password) < 6
     THEN resp' = Blank("register_form") /\ UNCHANGED <<users, connections>>
     ELSE IF UserExists(users, username, email)
          THEN resp' = Blank("register_form") /\ UNCHANGED <<users, connections>>
          ELSE /\ users' = Append(users, [NewUser(username, email, password)
                                            EXCEPT !.role = form.role])
               /\ resp' = Blank("login")
               /\ UNCHANGED connections

\* register(), POST
Register(form, fault, cap) ==
  LET username == Strip(form.username)
      email == Strip(form.email)
      password == Strip(form.password)
  IN
  /\ Len(users) < cap
  /\ UNCHANGED <<texts, session>>
  /\ IF username = <<>> \/ email = <<>> \/ password = <<>> \/ Len(password) < 6
     THEN resp' = Blank("register_form") /\ UNCHANGED <<users, connections>>
     ELSE IF fault = "connection"
     THEN resp' = Blank("error") /\ UNCHANGED <<users, connections>>
     ELSE IF fault = "select"
     THEN /\ resp' = Blank("error")
          /\ connections' = connections + 1
          /\ UNCHANGED users
     ELSE IF UserExists(users, username, email)
     THEN resp' = Blank("register_form") /\ UNCHANGED <<users, connections>>
     ELSE IF fault \in {"insert", "commit"}
     THEN /\ resp' = Blank("error")
          /\ connections' = connections + 1
          /\ UNCHANGED users
     ELSE /\ users' = Append(users, NewUser(username, email, password))
          /\ resp' = Blank("login")
          /\ UNCHANGED connections

\* the row of SELECT ... FROM users WHERE username = ? OR email = ?, fetchone():
\* its id, or 0 when there is none
LoginRow(rel, username) ==
  LET ids == {i \in 1..Len(rel) : rel[i].username = username \/ rel[i].email = username}
  IN  IF ids = {} THEN 0 ELSE CHOOSE i \in ids : \A j \in ids : i <= j

\* login(), POST
Login(form) ==
  LET username == Strip(form.username)
      password == Strip(form.password)
      row == LoginRow(users, username)
  IN
  /\ UNCHANGED <<texts, users, connections>>
  /\ IF username = <<>> \/ password = <<>>
     THEN resp' = Blank("login") /\ UNCHANGED session
     ELSE IF row # 0 /\ check_password_hash(users[row].password_hash, password)
          THEN /\ session' = [user_id |-> row, role |-> users[row].role]
               /\ resp' = Blank("home")
          ELSE resp' = Blank("login") /\ UNCHANGED session

\* @login_required logout(): session.clear()
Logout ==
  /\ LoggedIn(session)
  /\ session' = NoSession
  /\ resp' = Blank("login")
  /\ UNCHANGED <<texts, users, connections>>

(***************************************************************************)
(* Spec: the store as init_database leaves it, then any requests.  A       *)
(* moderation request names the first sample, a contributed text, or an id *)
(* that is not in the store.                                               *)
(***************************************************************************)
Init ==
  /\ texts = sample_texts
  /\ resp = Blank("none")
  /\ users = users_data
  /\ session = NoSession
  /\ connections = 0

ModIds == {1} \cup ((Len(sample_texts) + 1)..(Len(texts) + 1))

Next ==
  \/ \E s \in Contributors, form \in Forms : Contribute(s, form, MaxTexts)
       /\ UNCHANGED accounts
  \/ \E s \in Sessions, text_id \in ModIds : ManagerApprove(s, text_id)
       /\ UNCHANGED accounts
  \/ \E s \in Sessions, text_id \in ModIds : ManagerReject(s, text_id)
       /\ UNCHANGED accounts
  \/ \E logged_in \in BOOLEAN, method \in Methods, raw \in Queries :
       Search(logged_in, method, raw, 1)
       /\ UNCHANGED accounts

Spec == Init /\ [][Next]_vars

(***************************************************************************)
(* The page parameter, as request.args.get('page', 1, type=int) reads it:  *)
(* int() of the text of the parameter, and the default when the parameter  *)
(* is absent or int() raises ValueError.                                   *)
(***************************************************************************)
NoPageArg == [given |-> FALSE, text |-> <<>>]

PageArgZero == [given |-> TRUE, text |-> <<"0">>]
PageArgMinusOne == [given |-> TRUE, text |-> <<"-","1">>]
PageArgTwo == [given |-> TRUE, text |-> <<" ","2">>]
PageArgLetters == [given |-> TRUE, text |-> <<"a","b","c">>]
PageArgSign == [given |-> TRUE, text |-> <<"-">>]

PageArgs ==
  { NoPageArg, PageArgZero, PageArgMinusOne, PageArgTwo, PageArgLetters,
    PageArgSign }

Digits == <<"0","1","2","3","4","5","6","7","8","9">>

IsDigit(c) == \E d \in 1..Len(Digits) : Digits[d] = c

DigitValue(c) == (CHOOSE d \in 1..Len(Digits) : Digits[d] = c) - 1

RECURSIVE DigitsValue(_, _)
DigitsValue(s, acc) ==
  IF s = <<>> THEN acc
  ELSE DigitsValue(Tail(s), acc * 10 + DigitValue(Head(s)))

\* the digits of an int() literal: the text stripped, without its sign
IntBody(text) ==
  LET t == Strip(text)
  IN  IF t # <<>> /\ t[1] \in {"+", "-"} THEN Tail(t) ELSE t

\* int(text) does not raise ValueError
IntParses(text) ==
  /\ IntBody(text) # <<>>
  /\ \A i \in 1..Len(IntBody(text)) : IsDigit(IntBody(text)[i])

\* int(text)
IntValue(text) ==
  LET t == Strip(text)
      v == DigitsValue(IntBody(text), 0)
  IN  IF t[1] = "-" THEN 0 - v ELSE v

\* page = request.args.get('page', 1, type=int)
PageOf(arg) ==
  IF arg.given /\ IntParses(arg.text) THEN IntValue(arg.text) ELSE 1

\* @login_required search() of a GET request with a page parameter.  The
\* offset is (page - 1) * 10, whatever the page: SQLite reads a negative OFFSET
\* as 0, PostgreSQL raises on it and the request ends in the 500 handler.
SearchPageArg(logged_in, raw, arg, is_postgres) ==
  LET page == PageOf(arg)
      query == RequestQuery("GET", raw)
  IN  /\ resp' = IF ~logged_in THEN Blank("login")
                 ELSE IF query # <<>> /\ Offset(page) < 0 /\ is_postgres
                      THEN Blank("error")
                      ELSE SearchResponse(texts, "GET", raw, page)
      /\ UNCHANGED texts

(***************************************************************************)
(* SpecPages: a store that nine approved contributions have grown past one *)
(* page of results, then requests with a page parameter.  A moderation     *)
(* request names one of the last two texts or an id not in the store.      *)
(***************************************************************************)
PagesContributions == 9

ApprovedText(s, form) == [NewText(s, form) EXCEPT !.status = "approved"]

InitPages ==
  /\ texts = sample_texts \o
       [n \in 1..PagesContributions |->
          ApprovedText(UserSession, FormPerson)]
  /\ resp = Blank("none")
  /\ users = users_data
  /\ session = NoSession
  /\ connections = 0

PagesModIds == (Len(texts) - 1)..(Len(texts) + 1)

NextPages ==
  \/ \E s \in Contributors : Contribute(s, FormPerson, MaxTextsPages)
       /\ UNCHANGED accounts
  \/ \E s \in Sessions, text_id \in PagesModIds : ManagerApprove(s, text_id)
       /\ UNCHANGED accounts
  \/ \E s \in Sessions, text_id \in PagesModIds : ManagerReject(s, text_id)
       /\ UNCHANGED accounts
  \/ \E logged_in \in BOOLEAN, method \in Methods, raw \in PagesQueries,
        page \in 1..MaxPage : Search(logged_in, method, raw, page)
       /\ UNCHANGED accounts
  \/ \E logged_in \in BOOLEAN, raw \in PageArgQueries, arg \in PageArgs,
        is_postgres \in BOOLEAN :
          SearchPageArg(logged_in, raw, arg, is_postgres)
       /\ UNCHANGED accounts

SpecPages == InitPages /\ [][NextPages]_vars

(***************************************************************************)
(* extract_words.  A text is None or a str; a character outside ASCII is   *)
(* written by its name ("s_caron" is U+0161, a letter of Latin Extended-A, *)
(* which str.lower() leaves as it is and which \w matches).                *)
(***************************************************************************)
None == [null |-> TRUE, chars |-> <<>>]

Str(chars) == [null |-> FALSE, chars |-> chars]

AsciiLower ==
  { "a","b","c","d","e","f","g","h","i","j","k","l","m",
    "n","o","p","q","r","s","t","u","v","w","x","y","z" }

AsciiUpper ==
  { "A","B","C","D","E","F","G","H","I","J","K","L","M",
    "N","O","P","Q","R","S","T","U","V","W","X","Y","Z" }

ExtendedLetters == { "s_caron" }

\* [a-zA-Z]
IsLetter(c) == c \in AsciiLower \cup AsciiUpper

\* \w of a str pattern: the alphanumerics of Unicode and the underscore
IsWordChar(c) ==
  IsLetter(c) \/ IsDigit(c) \/ c = "_" \/ c \in ExtendedLetters

\* s[i] is a character of s and \w matches it
WordAt(s, i) == i >= 1 /\ i <= Len(s) /\ IsWordChar(s[i])

\* \b holds between s[i - 1] and s[i]
Boundary(s, i) == WordAt(s, i - 1) # WordAt(s, i)

\* [a-zA-Z]+ from i, greedy: the last index of the run of letters
LettersEnd(s, i) ==
  CHOOSE j \in (i - 1)..Len(s) :
    /\ \A m \in i..j : IsLetter(s[m])
    /\ (j = Len(s) \/ ~IsLetter(s[j + 1]))

\* the run given back letter by letter until \b holds after it; 0: no match
BacktrackEnd(s, i, j) ==
  LET ends == {e \in i..j : Boundary(s, e + 1)}
  IN  IF ends = {} THEN 0 ELSE SetMax(ends)

\* mutant: the pattern without its two \b
MatchEnd_NoBoundary(s, i) == IF LettersEnd(s, i) < i THEN 0 ELSE LettersEnd(s, i)

\* the last index of the match of \b[a-zA-Z]+\b that starts at i; 0: no match
MatchEnd(s, i) ==
  IF Boundary(s, i) THEN BacktrackEnd(s, i, LettersEnd(s, i)) ELSE 0

\* the scan of re.findall over the start positions i..k, left to right: the
\* matches found, and the position at which the scan goes on (behind the
\* match, or one further where nothing matches); the range is scanned by
\* halves, the second half from where the scan of the first one ended
RECURSIVE FindAllIn(_, _, _)
FindAllIn(s, i, k) ==
  IF i > k THEN [found |-> <<>>, next |-> i]
  ELSE IF i = k
       THEN LET j == MatchEnd(s, i)
            IN  IF j = 0 THEN [found |-> <<>>, next |-> i + 1]
                ELSE [found |-> <<SubSeq(s, i, j)>>, next |-> j + 1]
       ELSE LET mid == (i + k) \div 2
                left == FindAllIn(s, i, mid)
                right == FindAllIn(s, IF left.next > mid THEN left.next
                                      ELSE mid + 1, k)
            IN  [found |-> left.found \o right.found, next |-> right.next]

\* re.findall(r'\b[a-zA-Z]+\b', s)
FindAll(s) == FindAllIn(s, 1, Len(s)).found

LongerThanTwo(word) == Len(word) > 2

\* mutant: without the filter on the length of a word
extract_words_AnyLength(text) ==
  IF text.null \/ text.chars = <<>> THEN <<>>
  ELSE FindAll(LowerStr(text.chars))

extract_words(text) ==
  IF text.null \/ text.chars = <<>> THEN <<>>
  ELSE SelectSeq(FindAll(LowerStr(text.chars)), LongerThanTwo)

(***************************************************************************)
(* SpecWords: extract_words called on None and on every text made of at    *)
(* most MaxPieces of the pieces below.                                     *)
(***************************************************************************)
MaxPieces == 4

Pieces ==
  { <<"a","b","c">>, <<"U","k","u">>, <<"a","b">>, <<"2">>, <<"_">>,
    <<"s_caron">>, <<" ">>, <<"!">> }

RECURSIVE Concat(_)
Concat(ps) == IF ps = <<>> THEN <<>> ELSE Head(ps) \o Concat(Tail(ps))

WordTexts ==
  {None} \cup
  { Str(Concat(ps)) : ps \in UNION { [1..k -> Pieces] : k \in 0..MaxPieces } }

\* a call of extract_words with one of the texts
InitWords ==
  /\ texts = sample_texts
  /\ \E text \in WordTexts : resp = [kind |-> "call", text |-> text]
  /\ users = users_data
  /\ session = NoSession
  /\ connections = 0

\* the call returns
ExtractWords ==
  /\ resp.kind = "call"
  /\ resp' = [kind |-> "extract_words", text |-> resp.text,
               words |-> extract_words(resp.text)]
  /\ UNCHANGED texts

NextWords == ExtractWords /\ UNCHANGED accounts

SpecWords == InitWords /\ [][NextWords]_vars

(***************************************************************************)
(* generate_statistics.  The order of the rows of a SELECT without ORDER BY *)
(* is the store's choice: the model draws it from ascending and descending *)
(* id.  A response keeps the ids in the order fetched (the local texts of  *)
(* the call) as scan; last_updated, the time of the call, is left out.     *)
(* A failure of the store is an input of the call: of get_db_connection,   *)
(* of the SELECT of the texts, or of the SELECT of the category counts.    *)
(***************************************************************************)
WordFrequencyTop == 20

WordPairsTop == 10

ScanOrders == {"asc", "desc"}

StatsFaults == {"none", "connection", "texts_query", "category_query"}

Reverse(seq) == [i \in 1..Len(seq) |-> seq[Len(seq) + 1 - i]]

\* the ids of SELECT * FROM texts WHERE status = 'approved', as fetched
FetchApproved(rel, scan) ==
  LET desc == OrderByIdDesc({i \in 1..Len(rel) : rel[i].status = "approved"})
  IN  IF scan = "desc" THEN desc ELSE Reverse(desc)

\* total_words += text['word_count'] or 0
RECURSIVE SumWordCount(_, _)
SumWordCount(rel, ids) ==
  IF ids = <<>> THEN 0
  ELSE rel[Head(ids)].word_count + SumWordCount(rel, Tail(ids))

\* mutant: the metric of the first row fetched, not the sum over the rows
SumUniqueWords_FirstRow(rel, ids) ==
  IF ids = <<>> THEN 0 ELSE rel[Head(ids)].unique_words

\* total_unique_words += text['unique_words'] or 0
RECURSIVE SumUniqueWords(_, _)
SumUniqueWords(rel, ids) ==
  IF ids = <<>> THEN 0
  ELSE rel[Head(ids)].unique_words + SumUniqueWords(rel, Tail(ids))

\* all_zu_text += f" {title} {content} {full_content or ''}"
RECURSIVE AllZuText(_, _)
AllZuText(rel, ids) ==
  IF ids = <<>> THEN <<>>
  ELSE LET r == rel[Head(ids)]
       IN  <<" ">> \o r.title \o <<" ">> \o r.content \o <<" ">>
             \o r.full_content \o AllZuText(rel, Tail(ids))

\* all_en_text += f" {title_en} {content_en} {full_content_en or ''}"
RECURSIVE AllEnText(_, _)
AllEnText(rel, ids) ==
  IF ids = <<>> THEN <<>>
  ELSE LET r == rel[Head(ids)]
       IN  <<" ">> \o r.title_en \o <<" ">> \o r.content_en \o <<" ">>
             \o r.full_content_en \o AllEnText(rel, Tail(ids))

\* the keys of Counter(stream), in the order of their insertion: a key is
\* inserted where it occurs first in the stream
CounterKeys(stream) ==
  LET IsFirst(i) == \A j \in 1..(i - 1) : stream[j] # stream[i]
      firsts == SelectSeq([i \in 1..Len(stream) |-> i], IsFirst)
  IN  List([k \in 1..Len(firsts) |-> stream[firsts[k]]])

\* Counter(stream)[key]
CounterCount(stream, key) ==
  Cardinality({i \in 1..Len(stream) : stream[i] = key})

\* Counter(stream).items()
CounterItems(stream) ==
  LET keys == CounterKeys(stream)
  IN  List([k \in 1..Len(keys) |->
              [key |-> keys[k], count |-> CounterCount(stream, keys[k])]])

\* sorted(items, key = count, reverse = True): stable, an item of equal count
\* stays behind the items inserted before it
SortedByCount(items) ==
  LET rank == List([k \in 1..Len(items) |->
                      1 + Cardinality({j \in 1..Len(items) :
                            \/ items[j].count > items[k].count
                            \/ items[j].count = items[k].count /\ j < k})])
  IN  List([p \in 1..Len(items) |->
              items[CHOOSE k \in 1..Len(items) : rank[k] = p]])

\* mutant: the n items inserted first, whatever their count
most_common_Unsorted(stream, n) ==
  SubSeq(CounterItems(stream), 1, Min(n, Len(CounterItems(stream))))

\* Counter(stream).most_common(n)
most_common(stream, n) ==
  LET sorted == SortedByCount(CounterItems(stream))
  IN  SubSeq(sorted, 1, Min(n, Len(sorted)))

\* [{'word': word, 'frequency': freq} for word, freq in most_common(20)]
WordFrequency(words) ==
  LET top == most_common(words, WordFrequencyTop)
  IN  [k \in 1..Len(top) |-> [word |-> top[k].key, frequency |-> top[k].count]]

\* mutant: the pairs of the odd positions only, a window that moves by 2
Bigrams_Disjoint(words) ==
  [i \in 1..(Len(words) \div 2) |-> <<words[2 * i - 1], words[2 * i]>>]

\* zip(words[:-1], words[1:])
Bigrams(words) == [i \in 1..(Len(words) - 1) |-> <<words[i], words[i + 1]>>]

\* the word pairs: [] unless len(words) > 1, else the 10 most common bigrams
WordPairs(words) ==
  IF Len(words) > 1
  THEN LET top == most_common(Bigrams(words), WordPairsTop)
       IN  [k \in 1..Len(top) |->
              [word1 |-> top[k].key[1], word2 |-> top[k].key[2],
               frequency |-> top[k].count]]
  ELSE <<>>

\* SELECT category, COUNT(*) FROM texts WHERE status = 'approved' GROUP BY category
CategoryStats(rel) ==
  LET approved == {i \in 1..Len(rel) : rel[i].status = "approved"}
  IN  { <<rel[i].category,
          Cardinality({j \in approved : rel[j].category = rel[i].category})>> :
        i \in approved }

\* what a call that raises leaves its caller with
Raised == [kind |-> "raised"]

\* mutant: every row of texts read, whatever its status
StatsRows_AnyStatus(rel, scan) ==
  IF scan = "desc" THEN Reverse([i \in 1..Len(rel) |-> i])
  ELSE [i \in 1..Len(rel) |-> i]

\* texts = cursor.fetchall() of generate_statistics
StatsRows(rel, scan) == FetchApproved(rel, scan)

\* the dict generate_statistics returns; avg_word_length, a float quotient,
\* is kept as its numerator and denominator
StatsOf(rel, scan) ==
  LET ids == StatsRows(rel, scan)
      total_texts == Len(ids)
      total_words == SumWordCount(rel, ids)
      zu_words == extract_words(Str(AllZuText(rel, ids)))
      en_words == extract_words(Str(AllEnText(rel, ids)))
  IN  [ kind |-> "statistics",
        total_texts |-> total_texts,
        total_words |-> total_words,
        total_unique_words |-> SumUniqueWords(rel, ids),
        avg_word_length |->
          [num |-> total_words,
           den |-> IF total_texts > 1 THEN total_texts ELSE 1],
        zu_word_frequency |-> WordFrequency(zu_words),
        en_word_frequency |-> WordFrequency(en_words),
        zu_word_pairs |-> WordPairs(zu_words),
        en_word_pairs |-> WordPairs(en_words),
        category_stats |-> CategoryStats(rel),
        scan |-> ids ]

\* mutant: a failure of the store answered with the tables computed so far
generate_statistics_Masked(rel, scan, fault) ==
  IF fault \in {"connection", "texts_query"}
  THEN StatsOf(<<>>, scan)
  ELSE [StatsOf(rel, scan) EXCEPT !.category_stats = {}]

\* generate_statistics(): try / finally without except, a failure goes up
generate_statistics(rel, scan, fault) ==
  IF fault # "none" THEN Raised ELSE StatsOf(rel, scan)

\* mutant: a statistics request that clears the store of what it does not
\* count
Statistics_Pruning(logged_in, scan, fault) ==
  /\ resp' = IF ~logged_in THEN Blank("login")
             ELSE LET stats == generate_statistics(texts, scan, fault)
                  IN  IF stats = Raised THEN Blank("error") ELSE stats
  /\ texts' = SelectSeq(texts, LAMBDA r : r.status = "approved")

\* @login_required statistics(); an exception ends in the 500 handler
Statistics(logged_in, scan, fault) ==
  /\ resp' = IF ~logged_in THEN Blank("login")
             ELSE LET stats == generate_statistics(texts, scan, fault)
                  IN  IF stats = Raised THEN Blank("error") ELSE stats
  /\ UNCHANGED texts

(***************************************************************************)
(* search() with a failure of the store: of get_db_connection, of the      *)
(* COUNT, of the SELECT of the page, or of the SELECT inside               *)
(* count_search_occurrences.  get_db_connection raises when no backend     *)
(* connects; a PostgreSQL that refuses while SQLite opens is a connection. *)
(***************************************************************************)
SearchFaults == {"connection", "count_query", "fetch_query", "occurrence_scan"}

\* search() runs the step that fails: no step runs for an empty query, and the
\* occurrence scan runs for a query that is not a category name
FaultApplies(query, fault) ==
  /\ query # <<>>
  /\ fault = "occurrence_scan" => CategoryQuery(query) = NoCategory

\* mutant: a failure of the store answered as a search without results
SearchOutcome_Masked(rel, method, raw, page, fault) ==
  IF FaultApplies(RequestQuery(method, raw), fault)
  THEN [ Blank("search") EXCEPT !.query = RequestQuery(method, raw),
                                !.page = page ]
  ELSE SearchResponse(rel, method, raw, page)

\* the body of search(): try / finally without except, a failure goes up
SearchOutcome(rel, method, raw, page, fault) ==
  IF FaultApplies(RequestQuery(method, raw), fault) THEN Raised
  ELSE SearchResponse(rel, method, raw, page)

\* @login_required search() while the store fails; an exception ends in the
\* 500 handler
SearchFaulty(logged_in, method, raw, page, fault) ==
  /\ resp' = IF ~logged_in THEN Blank("login")
             ELSE LET out == SearchOutcome(texts, method, raw, page, fault)
                  IN  IF out = Raised THEN Blank("error") ELSE out
  /\ UNCHANGED texts

StatsQueries == { K_izaga, Q_old, Q_empty }

(***************************************************************************)
(* SpecStats: the store of init_database, contributions of a poem whose    *)
(* category is not in CATEGORY_MAP, moderation of any text, statistics.    *)
(***************************************************************************)
MaxStatsTexts == 6

FormPoem ==
  [ title |-> <<"I","n","k","o","n","d","l","o">>,
    title_en |-> <<"P","o","e","m">>,
    content |-> <<"a","m","a","n","z","i"," ","u","m","f","u","l","a"," ",
                  "i","l","a","n","g","a">>,
    content_en |-> <<"w","a","t","e","r"," ","r","i","v","e","r"," ","s","u","n">>,
    full_content |-> <<"i","n","y","a","n","g","a"," ","i","z","u","l","u"," ",
                       "u","m","o","y","a"," ","i","m","v","u","l","a">>,
    full_content_en |-> <<"m","o","o","n"," ","s","k","y"," ","w","i","n","d"," ",
                          "r","a","i","n">>,
    category |-> <<"p","o","e","m">> ]

StatsModIds == 1..(Len(texts) + 1)

NextStats ==
  \/ \E s \in Contributors : Contribute(s, FormPoem, MaxStatsTexts)
       /\ UNCHANGED accounts
  \/ \E s \in Sessions, text_id \in StatsModIds : ManagerApprove(s, text_id)
       /\ UNCHANGED accounts
  \/ \E s \in Sessions, text_id \in StatsModIds : ManagerReject(s, text_id)
       /\ UNCHANGED accounts
  \/ \E logged_in \in BOOLEAN, scan \in ScanOrders, fault \in StatsFaults :
       Statistics(logged_in, scan, fault)
       /\ UNCHANGED accounts

SpecStats == Init /\ [][NextStats]_vars

(***************************************************************************)
(* SpecFaults: the store of init_database, contributions of the poem,      *)
(* moderation of the first two samples and of the contributed texts, and   *)
(* statistics and search requests during which the store may fail.         *)
(***************************************************************************)
FaultModIds == {1, 2} \cup ((Len(sample_texts) + 1)..(Len(texts) + 1))

NextFaults ==
  \/ \E s \in Contributors : Contribute(s, FormPoem, MaxStatsTexts)
       /\ UNCHANGED accounts
  \/ \E s \in Sessions, text_id \in FaultModIds : ManagerApprove(s, text_id)
       /\ UNCHANGED accounts
  \/ \E s \in Sessions, text_id \in FaultModIds : ManagerReject(s, text_id)
       /\ UNCHANGED accounts
  \/ \E logged_in \in BOOLEAN, scan \in ScanOrders, fault \in StatsFaults :
       Statistics(logged_in, scan, fault)
       /\ UNCHANGED accounts
  \/ \E logged_in \in BOOLEAN, method \in Methods, raw \in StatsQueries,
        fault \in SearchFaults : SearchFaulty(logged_in, method, raw, 1, fault)
       /\ UNCHANGED accounts

SpecFaults == Init /\ [][NextFaults]_vars

(***************************************************************************)
(* Vocabulary of the properties.                                           *)
(***************************************************************************)
IsSearch == resp.kind = "search"

\* a search whose query is not empty and is not a category name
IsTextSearch == IsSearch /\ resp.query # <<>> /\ ~resp.is_category_search

ResultIds == {resp.results[n].id : n \in 1..Len(resp.results)}

ApprovedIds == {n \in 1..Len(texts) : texts[n].status = "approved"}

\* the texts contributed through the application
ContributedIds == (Len(sample_texts) + 1)..Len(texts)

\* term occurs in field as a substring, letter case ignored
ContainsCI(field, term) ==
  \E i \in 1..(Len(field) - Len(term) + 1) :
    \A j \in 1..Len(term) : Lower(field[i + j - 1]) = Lower(term[j])

\* the five fields the WHERE clause of a text search reads
ReadFields(r) == {r.title, r.title_en, r.content, r.content_en, r.full_content}

\* the six text fields of a record
TextFields(r) == ReadFields(r) \cup {r.full_content_en}

\* the seven searchable fields
SearchableFields(r) == TextFields(r) \cup {r.category}

ContainsTerm(r, term) == \E f \in SearchableFields(r) : ContainsCI(f, term)

IsCategoryName(q) ==
  \E i \in DOMAIN CATEGORY_MAP :
    q \in {CATEGORY_MAP[i].id, CATEGORY_MAP[i].en, CATEGORY_MAP[i].zu}

\* the least n with n * results_per_page >= total
CeilPages(total) ==
  CHOOSE n \in 0..total :
    /\ n * results_per_page >= total
    /\ (n - 1) * results_per_page < total

(***************************************************************************)
(* C1.  A non-category search reports as total_results the number of       *)
(* approved records that contain the term, and returns approved records    *)
(* only; pending and rejected records never count.                         *)
(* Fails: an approved record that holds the term in full_content_en or in  *)
(* category only is not counted (see C7).                                  *)
(***************************************************************************)
C1_TotalIsApprovedContaining ==
  IsTextSearch =>
    /\ resp.total_results =
         Cardinality({n \in ApprovedIds : ContainsTerm(texts[n], resp.query)})
    /\ ResultIds \subseteq ApprovedIds

(***************************************************************************)
(* C2.  Moderation changes the status of a record at most once: a          *)
(* contributed record that is approved or rejected keeps that status.      *)
(* Fails: the UPDATE of manager_approve and manager_reject has no          *)
(* condition on the current status.                                        *)
(***************************************************************************)
C2_ModeratedAtMostOnce ==
  [][\A n \in ContributedIds :
       texts[n].status \in {"approved", "rejected"} =>
         texts'[n].status = texts[n].status]_vars

(***************************************************************************)
(* C3.  No request moves a record back to pending, and no request removes  *)
(* a record from texts.                                                    *)
(***************************************************************************)
C3_NeverBackToPending ==
  [][/\ Len(texts') >= Len(texts)
     /\ \A n \in 1..Len(texts) :
          texts[n].status # "pending" => texts'[n].status # "pending"]_vars

\* a moderation request has answered and a contributed text is moderated
C3_Witness ==
  /\ resp.kind = "manager_pending"
  /\ \E n \in ContributedIds : texts[n].status = "rejected"

(***************************************************************************)
(* C4.  As claimed: total_pages is ceil(total_results / 10) with a floor   *)
(* of 1.  Fails for a search without matches and for an empty query, where *)
(* total_pages is 0.                                                       *)
(***************************************************************************)
C4_CeilWithFloorOfOne ==
  IsSearch =>
    resp.total_pages =
      (IF CeilPages(resp.total_results) < 1 THEN 1
       ELSE CeilPages(resp.total_results))

\* C4, amended: total_pages is ceil(total_results / 10), without a floor:
\* it is 0 when nothing matches and for an empty query.
C4_CeilWithoutFloor ==
  IsSearch => resp.total_pages = CeilPages(resp.total_results)

\* a search whose query is not empty and matches nothing: no pages
C4_Witness ==
  /\ IsSearch
  /\ resp.query # <<>>
  /\ resp.total_results = 0
  /\ resp.total_pages = 0

(***************************************************************************)
(* C5.  A search is a category search exactly when the trimmed,            *)
(* lower-cased raw query is a category key or display name, on the POST    *)
(* and on the GET path.  (Trimming the query of the response is trimming   *)
(* the raw query: POST has trimmed it, GET has left it as sent.)           *)
(* Fails on the GET path, which does not trim.                             *)
(***************************************************************************)
C5_CategoryIffTrimmedName ==
  IsSearch =>
    (resp.is_category_search <=> IsCategoryName(LowerStr(Strip(resp.query))))

(***************************************************************************)
(* C6.  A category search with resolved key k returns exactly the approved *)
(* records whose category is k: the query names k by its key or a display  *)
(* name, total_results counts those records, every returned record is one  *)
(* of them, and the first page holds them all when they fit on it.         *)
(***************************************************************************)
C6_CategorySearchExact ==
  IsSearch /\ resp.is_category_search =>
    \E i \in DOMAIN CATEGORY_MAP :
      LET k == CATEGORY_MAP[i].id
          ofK == {n \in ApprovedIds : texts[n].category = k}
      IN  /\ LowerStr(resp.query) \in
               {k, LowerStr(CATEGORY_MAP[i].en), LowerStr(CATEGORY_MAP[i].zu)}
          /\ resp.total_results = Cardinality(ofK)
          /\ ResultIds \subseteq ofK
          /\ (resp.page = 1 /\ Cardinality(ofK) <= results_per_page)
               => ResultIds = ofK

\* a category search returned a record none of whose text fields holds the
\* query, and left out an approved record whose text holds it
C6_Witness ==
  /\ IsSearch
  /\ resp.is_category_search
  /\ \E n \in ResultIds :
       \A f \in TextFields(texts[n]) : ~ContainsCI(f, resp.query)
  /\ \E n \in ApprovedIds \ ResultIds :
       \E f \in TextFields(texts[n]) : ContainsCI(f, resp.query)

(***************************************************************************)
(* C7.  The first page of a non-category search returns every approved     *)
(* record that holds the term, letter case ignored, in one of the seven    *)
(* searchable fields.                                                      *)
(* Fails: the WHERE clause does not read full_content_en and category,     *)
(* which count_search_occurrences and the claim do.                        *)
(***************************************************************************)
C7_AllSevenFields ==
  (IsTextSearch /\ resp.page = 1) =>
    /\ \A n \in ApprovedIds :
         ContainsTerm(texts[n], resp.query) => n \in ResultIds
    /\ resp.total_results >=
         Cardinality({n \in ApprovedIds : ContainsTerm(texts[n], resp.query)})

\* the whitespace-separated terms of the query of the response
QueryTerms == Split(resp.query)

\* the query holds none of the wildcards of LIKE
NoWildcard == \A i \in 1..Len(resp.query) : resp.query[i] \notin {"%", "_"}

PageIds(M, p) ==
  LET rows == FetchRows(texts, M, p) IN {rows[i].id : i \in 1..Len(rows)}

(***************************************************************************)
(* C9.  Page p of a search returns the matching records at ranks           *)
(* (p-1)*10+1 .. p*10 of the matching set sorted by id descending: at most *)
(* 10 rows, the row at position i having exactly (p-1)*10 + i - 1 matches  *)
(* of larger id, as many rows as the matching set has left at that offset; *)
(* the pages 1..total_pages are pairwise disjoint and together are the     *)
(* matching set.                                                           *)
(***************************************************************************)
C9_PageIsRankWindow ==
  (IsSearch /\ resp.query # <<>> /\ resp.page >= 1) =>
    LET M == Selected(texts, resp.query)
        first == (resp.page - 1) * 10
        left == Cardinality(M) - first
        rows == resp.results
    IN  /\ Len(rows) <= 10
        /\ Len(rows) = (IF left < 0 THEN 0 ELSE IF left > 10 THEN 10 ELSE left)
        /\ \A i \in 1..Len(rows) :
             /\ rows[i].id \in M
             /\ Cardinality({m \in M : m > rows[i].id}) = first + i - 1
        /\ \A i \in 1..(Len(rows) - 1) : rows[i].id > rows[i + 1].id
        /\ \A p1, p2 \in 1..resp.total_pages :
             p1 # p2 => PageIds(M, p1) \cap PageIds(M, p2) = {}
        /\ UNION {PageIds(M, p) : p \in 1..resp.total_pages} = M

\* the second page of a search with more matches than one page holds
C9_Witness ==
  /\ IsSearch
  /\ resp.page = 2
  /\ resp.total_results > results_per_page
  /\ Len(resp.results) = resp.total_results - results_per_page

(***************************************************************************)
(* C10.  A search whose query is empty or whitespace only returns no rows, *)
(* total_results = 0 and is_category_search = FALSE, and runs no query     *)
(* against texts.                                                          *)
(* Fails on the GET path: a query of a space is not trimmed, is not empty, *)
(* and runs the count, the fetch and the occurrence scan with LIKE '% %'.  *)
(***************************************************************************)
C10_EmptyQueryNoStore ==
  (IsSearch /\ Strip(resp.query) = <<>>) =>
    /\ resp.results = <<>>
    /\ resp.total_results = 0
    /\ ~resp.is_category_search
    /\ resp.store_queries = 0

(***************************************************************************)
(* C11.  The page a search uses is at least 1 and the OFFSET it passes to  *)
(* the store is not negative: a page parameter of 0 or below, like one     *)
(* that is not a number, is read as 1.                                     *)
(* Fails: only a parameter that int() refuses falls back to 1; page=0 and  *)
(* page=-1 are used as they are, with OFFSET -10 and -20.                  *)
(***************************************************************************)
C11_PageAtLeastOne ==
  IsSearch => (resp.page >= 1 /\ Offset(resp.page) >= 0)

\* a call of extract_words has returned
IsExtract == resp.kind = "extract_words"

\* the words occur in s one after the other, from index from on
RECURSIVE OccurInOrder(_, _, _)
OccurInOrder(words, s, from) ==
  \/ words = <<>>
  \/ \E p \in from..Len(s) :
       /\ StartsAt(s, p, Head(words))
       /\ OccurInOrder(Tail(words), s, p + Len(Head(words)))

(***************************************************************************)
(* C12.  extract_words returns only words that are lower-case, purely      *)
(* alphabetic and longer than 2 characters, in the order in which they     *)
(* occur in the lower-cased text, and the empty sequence for None and for  *)
(* the empty text.                                                         *)
(***************************************************************************)
C12_WordsLowerAlphabeticLong ==
  IsExtract =>
    /\ \A k \in 1..Len(resp.words) :
         /\ Len(resp.words[k]) > 2
         /\ \A i \in 1..Len(resp.words[k]) : resp.words[k][i] \in AsciiLower
    /\ OccurInOrder(resp.words, LowerStr(resp.text.chars), 1)
    /\ (resp.text.null \/ resp.text.chars = <<>>) => resp.words = <<>>

\* a text with a capital letter gave two different words
C12_Witness ==
  /\ IsExtract
  /\ Len(resp.words) = 2
  /\ resp.words[1] # resp.words[2]
  /\ resp.text.chars # LowerStr(resp.text.chars)

\* s[i..j] is a maximal run of characters of Alpha, longer than 2
IsLongRun(s, i, j, Alpha) ==
  /\ j - i + 1 > 2
  /\ \A k \in i..j : s[k] \in Alpha
  /\ i = 1 \/ s[i - 1] \notin Alpha
  /\ j = Len(s) \/ s[j + 1] \notin Alpha

\* s[i..j] is a run of ASCII letters longer than 2 with no character that \w
\* matches (letter, digit, underscore) next to it on either side
IsDelimitedRun(s, i, j) ==
  /\ j - i + 1 > 2
  /\ \A k \in i..j : IsLetter(s[k])
  /\ ~WordAt(s, i - 1)
  /\ ~WordAt(s, j + 1)

\* words lists, from left to right, the s[i..j] of the pairs in Runs
ListsRuns(words, s, Runs) ==
  LET starts == OrderByIdDesc({r[1] : r \in Runs})
      n == Len(starts)
  IN  /\ Len(words) = n
      /\ \A k \in 1..n :
           \E r \in Runs : r[1] = starts[n + 1 - k] /\ words[k] = SubSeq(s, r[1], r[2])

(***************************************************************************)
(* C13.  As claimed: extract_words returns every maximal run of alphabetic *)
(* characters of the lower-cased text that is longer than 2, the letters   *)
(* of Latin Extended-A being alphabetic, and a run next to a digit or an   *)
(* underscore being returned.  Fails: "abc2" gives no word.                *)
(***************************************************************************)
C13_EveryAlphabeticRun ==
  (IsExtract /\ ~resp.text.null) =>
    LET s == LowerStr(resp.text.chars)
        Alpha == AsciiLower \cup ExtendedLetters
    IN  ListsRuns(resp.words, s,
          { r \in (1..Len(s)) \X (1..Len(s)) : IsLongRun(s, r[1], r[2], Alpha) })

\* C13, amended: extract_words returns, from left to right, every run of the
\* letters a-z of the lower-cased text that is longer than 2 and has no letter,
\* digit, underscore or letter outside ASCII next to it, and nothing else: a run
\* next to a digit, an underscore or a letter of Latin Extended-A is not returned.
C13_EveryDelimitedAsciiRun ==
  (IsExtract /\ ~resp.text.null) =>
    LET s == LowerStr(resp.text.chars)
    IN  ListsRuns(resp.words, s,
          { r \in (1..Len(s)) \X (1..Len(s)) : IsDelimitedRun(s, r[1], r[2]) })

\* a text with a word and a run of letters next to a digit or to a letter of
\* Latin Extended-A: the word is returned, the run is not
C13_Witness ==
  /\ IsExtract
  /\ Len(resp.words) = 1
  /\ \E i \in 1..Len(resp.text.chars) :
       /\ resp.text.chars[i] \in {"2", "s_caron"}
       /\ i > 3
       /\ \A k \in (i - 3)..(i - 1) : IsLetter(resp.text.chars[k])

\* a call of generate_statistics has returned its dict
IsStats == resp.kind = "statistics"

\* the sum of a stored metric over the records of S
RECURSIVE MetricSum(_, _)
MetricSum(S, metric) ==
  IF S = {} THEN 0
  ELSE LET n == CHOOSE n \in S : TRUE
       IN  texts[n][metric] + MetricSum(S \ {n}, metric)

(***************************************************************************)
(* C14.  generate_statistics returns total_texts = the number of approved  *)
(* records, total_words and total_unique_words = the sums of their stored  *)
(* word_count and unique_words, and the average total_words /              *)
(* max(total_texts, 1); with no approved record all four are 0.            *)
(***************************************************************************)
C14_TotalsOfApproved ==
  IsStats =>
    /\ resp.total_texts = Cardinality(ApprovedIds)
    /\ resp.total_words = MetricSum(ApprovedIds, "word_count")
    /\ resp.total_unique_words = MetricSum(ApprovedIds, "unique_words")
    /\ resp.avg_word_length.num = resp.total_words
    /\ resp.avg_word_length.den =
         (IF Cardinality(ApprovedIds) >= 1 THEN Cardinality(ApprovedIds) ELSE 1)
    /\ ApprovedIds = {} =>
         /\ resp.total_texts = 0
         /\ resp.total_words = 0
         /\ resp.total_unique_words = 0
         /\ resp.avg_word_length.num = 0

\* statistics of a store in which every text has been rejected
C14_Witness ==
  /\ IsStats
  /\ texts # <<>>
  /\ ApprovedIds = {}

\* the approved records alone, in id order
ApprovedOnly == SelectSeq(texts, LAMBDA r : r.status = "approved")

\* the order in which the call of the response fetched its rows
ScanOf(r) ==
  IF \A i \in 1..(Len(r.scan) - 1) : r.scan[i] < r.scan[i + 1]
  THEN "asc" ELSE "desc"

\* the totals and the tables of a statistics dict
Tables(r) ==
  << r.total_texts, r.total_words, r.total_unique_words, r.avg_word_length,
     r.zu_word_frequency, r.en_word_frequency, r.zu_word_pairs,
     r.en_word_pairs, r.category_stats >>

\* the words of the isiZulu fields of the records of S, the English ones
ZuWordsOf(S) ==
  UNION { LET w == extract_words(Str(AllZuText(texts, <<n>>)))
          IN  {w[i] : i \in 1..Len(w)} : n \in S }

EnWordsOf(S) ==
  UNION { LET w == extract_words(Str(AllEnText(texts, <<n>>)))
          IN  {w[i] : i \in 1..Len(w)} : n \in S }

(***************************************************************************)
(* C15.  The totals and the four tables of generate_statistics are a       *)
(* function of the approved records only: they are those of the store      *)
(* without its pending and rejected records, and every word of a table is  *)
(* a word of an approved record.                                           *)
(***************************************************************************)
C15_TablesOfApprovedOnly ==
  IsStats =>
    /\ Tables(resp) = Tables(StatsOf(ApprovedOnly, ScanOf(resp)))
    /\ {resp.zu_word_frequency[k].word : k \in 1..Len(resp.zu_word_frequency)}
         \cup {resp.zu_word_pairs[k].word1 : k \in 1..Len(resp.zu_word_pairs)}
         \cup {resp.zu_word_pairs[k].word2 : k \in 1..Len(resp.zu_word_pairs)}
           \subseteq ZuWordsOf(ApprovedIds)
    /\ {resp.en_word_frequency[k].word : k \in 1..Len(resp.en_word_frequency)}
         \cup {resp.en_word_pairs[k].word1 : k \in 1..Len(resp.en_word_pairs)}
         \cup {resp.en_word_pairs[k].word2 : k \in 1..Len(resp.en_word_pairs)}
           \subseteq EnWordsOf(ApprovedIds)

\* statistics of a store that holds approved records and a pending poem, the
\* words of which no approved record has
C15_Witness ==
  /\ IsStats
  /\ resp.total_texts >= 1
  /\ \E n \in ContributedIds :
       /\ texts[n].status = "pending"
       /\ ZuWordsOf({n}) \cap ZuWordsOf(ApprovedIds) = {}

\* the token streams of the call of the response
ZuStream == extract_words(Str(AllZuText(texts, resp.scan)))

EnStream == extract_words(Str(AllEnText(texts, resp.scan)))

\* the index of the first occurrence of word in stream
FirstIndex(stream, word) ==
  CHOOSE i \in 1..Len(stream) :
    stream[i] = word /\ \A j \in 1..(i - 1) : stream[j] # word

\* table is a word-frequency table of stream, as C16 describes one
IsFrequencyTable(table, stream) ==
  LET tokens == {stream[i] : i \in 1..Len(stream)}
      listed == {table[k].word : k \in 1..Len(table)}
  IN  /\ Len(table) <= 20
      /\ Len(table) = Min(20, Cardinality(tokens))
      /\ Cardinality(listed) = Len(table)
      /\ listed \subseteq tokens
      /\ \A k \in 1..Len(table) :
           table[k].frequency =
             Cardinality({i \in 1..Len(stream) : stream[i] = table[k].word})
      /\ \A k \in 1..(Len(table) - 1) :
           table[k].frequency >= table[k + 1].frequency
      /\ \A w \in tokens \ listed : \A k \in 1..Len(table) :
           Cardinality({i \in 1..Len(stream) : stream[i] = w})
             <= table[k].frequency
      /\ \A k1, k2 \in 1..Len(table) :
           (k1 < k2 /\ table[k1].frequency = table[k2].frequency) =>
             FirstIndex(stream, table[k1].word) < FirstIndex(stream, table[k2].word)

(***************************************************************************)
(* C16.  Each word-frequency table has at most 20 entries, lists distinct  *)
(* tokens with their count in the token stream of its language, is sorted  *)
(* by non-increasing count, leaves out no token that occurs more often     *)
(* than a listed one, and lists tokens of equal count in the order of      *)
(* their first occurrence in the stream.                                   *)
(***************************************************************************)
C16_FrequencyTables ==
  IsStats =>
    /\ IsFrequencyTable(resp.zu_word_frequency, ZuStream)
    /\ IsFrequencyTable(resp.en_word_frequency, EnStream)

\* a stream of more than 20 different tokens: the table is full, leaves tokens
\* out, and lists tokens of equal count
C16_Witness ==
  /\ IsStats
  /\ Cardinality({ZuStream[i] : i \in 1..Len(ZuStream)}) > 20
  /\ Len(resp.zu_word_frequency) = 20
  /\ resp.zu_word_frequency[1].frequency > resp.zu_word_frequency[20].frequency
  /\ resp.zu_word_frequency[19].frequency = resp.zu_word_frequency[20].frequency

\* the number of positions i with stream[i] = a and stream[i + 1] = b
AdjacentCount(stream, a, b) ==
  Cardinality({i \in 1..(Len(stream) - 1) : stream[i] = a /\ stream[i + 1] = b})

RECURSIVE FrequencySum(_)
FrequencySum(table) ==
  IF table = <<>> THEN 0 ELSE Head(table).frequency + FrequencySum(Tail(table))

\* table is a word-pair table of stream, as C17 describes one
IsPairTable(table, stream) ==
  /\ \A k \in 1..Len(table) :
       table[k].frequency = AdjacentCount(stream, table[k].word1, table[k].word2)
  /\ \A k \in 1..Len(table) : table[k].frequency >= 1
  /\ \A k1, k2 \in 1..Len(table) :
       k1 # k2 => <<table[k1].word1, table[k1].word2>>
                    # <<table[k2].word1, table[k2].word2>>
  /\ Len(stream) >= 1 => FrequencySum(table) <= Len(stream) - 1
  /\ Len(table) <= 15
  /\ \A k \in 1..(Len(table) - 1) : table[k].frequency >= table[k + 1].frequency
  /\ Len(stream) < 2 => table = <<>>

(***************************************************************************)
(* C17.  Each word-pair table counts, for a pair (a, b), the positions i   *)
(* with token[i] = a and token[i + 1] = b in the token stream that feeds   *)
(* the word-frequency table of its language, one window over the texts of  *)
(* all approved records; its counts sum to at most len(stream) - 1; it has *)
(* at most 15 entries, is sorted by non-increasing count, and is empty     *)
(* when the stream has fewer than 2 tokens.                                *)
(***************************************************************************)
C17_PairTables ==
  IsStats =>
    /\ IsPairTable(resp.zu_word_pairs, ZuStream)
    /\ IsPairTable(resp.en_word_pairs, EnStream)

\* a table cut to its 10 entries, with a pair that occurs twice and a pair made
\* of the last word of one record and the first word of the next
C17_Witness ==
  /\ IsStats
  /\ Len(resp.zu_word_pairs) = WordPairsTop
  /\ resp.zu_word_pairs[1].frequency >= 2
  /\ \E k \in 1..Len(resp.zu_word_pairs) : \A n \in ApprovedIds :
       AdjacentCount(extract_words(Str(AllZuText(texts, <<n>>))),
                     resp.zu_word_pairs[k].word1, resp.zu_word_pairs[k].word2) = 0

\* the six text fields of a record, one by one
FieldList(r) ==
  <<r.title, r.title_en, r.content, r.content_en, r.full_content,
    r.full_content_en>>

\* the occurrences of term, letter case ignored, in each field taken by itself
RECURSIVE OccurrencesByField(_, _)
OccurrencesByField(fields, term) ==
  IF fields = <<>> THEN 0
  ELSE StrCount(LowerStr(Head(fields)), LowerStr(term))
       + OccurrencesByField(Tail(fields), term)

RECURSIVE OccurrencesIn(_, _)
OccurrencesIn(S, term) ==
  IF S = {} THEN 0
  ELSE LET n == CHOOSE n \in S : TRUE
       IN  OccurrencesByField(FieldList(texts[n]), term)
           + OccurrencesIn(S \ {n}, term)

(***************************************************************************)
(* C18.  The total_occurrences of a non-category search is the sum, over   *)
(* the approved records and over each of their six text fields taken       *)
(* separately, of the occurrences of the term in the field, letter case    *)
(* ignored; no occurrence is made of the end of one field and the start of *)
(* the next.                                                               *)
(* Fails: the count is taken in the six fields joined by spaces, so        *)
(* "king izaga" occurs once in title_en "King" + content "izaga ubuntu".   *)
(* Stated for the queries without a space at either end, the ones a POST   *)
(* sends on, so that what refutes it is not the untrimmed query of C5.     *)
(***************************************************************************)
C18_OccurrencesPerField ==
  (IsTextSearch /\ Strip(resp.query) = resp.query) =>
    resp.total_occurrences = OccurrencesIn(ApprovedIds, resp.query)

C20_CategoryInVocabulary ==
  \A n \in 1..Len(texts) :
    \E i \in DOMAIN CATEGORY_MAP : texts[n].category = CATEGORY_MAP[i].id

\* the record matches the query of a search: its category is the one the query
\* names, or one of its seven searchable fields holds the term
Matches(r, query) ==
  IF CategoryQuery(query) # NoCategory
  THEN r.category = CategoryQuery(query)
  ELSE ContainsTerm(r, query)

\* the ids a statistics response was computed from
ScanIds == {resp.scan[i] : i \in 1..Len(resp.scan)}

(***************************************************************************)
(* C21.  A record created by contribute starts pending; while it is not    *)
(* approved no search result, occurrence count or statistics holds it; and *)
(* once manager_approve has approved it, and until it is rejected, every   *)
(* statistics request holds it and every search whose query it matches     *)
(* returns it.                                                             *)
(* Fails: an approved contribution that holds the term in full_content_en  *)
(* or in category only matches and is not returned (the WHERE clause reads *)
(* five fields, see C7).  The lifecycle itself holds: see                  *)
(* LifecycleOfReadFields.                                                  *)
(***************************************************************************)
C21_PendingUntilApproved ==
  [][/\ Len(texts') > Len(texts) => texts'[Len(texts')].status = "pending"
     /\ \A n \in ContributedIds' :
          IF texts'[n].status # "approved"
          THEN /\ IsSearch' => n \notin ResultIds'
               /\ IsTextSearch' =>
                    resp'.total_occurrences =
                      count_search_occurrences(ApprovedOnly', resp'.query)
               /\ IsStats' => n \notin ScanIds'
          ELSE /\ (/\ IsSearch' /\ resp'.query # <<>> /\ resp'.page = 1
                   /\ Matches(texts'[n], resp'.query)) => n \in ResultIds'
               /\ IsStats' => n \in ScanIds']_vars

\* the same with "matches" read as the WHERE clause of the text search reads
\* it: the term is in one of the five fields it names
LifecycleOfReadFields ==
  [][/\ Len(texts') > Len(texts) => texts'[Len(texts')].status = "pending"
     /\ \A n \in ContributedIds' :
          IF texts'[n].status # "approved"
          THEN /\ IsSearch' => n \notin ResultIds'
               /\ IsTextSearch' =>
                    resp'.total_occurrences =
                      count_search_occurrences(ApprovedOnly', resp'.query)
          ELSE (/\ IsTextSearch'
                /\ \E f \in ReadFields(texts'[n]) : ContainsCI(f, resp'.query))
                 => n \in ResultIds']_vars

(***************************************************************************)
(* C22.  search, count_search_occurrences and generate_statistics write    *)
(* nothing: whatever the input, and whether the request ends in a result   *)
(* or in the error response, the texts relation after it is the relation   *)
(* before it.                                                              *)
(***************************************************************************)
C22_ReadsLeaveTexts ==
  [][resp'.kind \in {"search", "statistics", "error"} => texts' = texts]_vars

\* a search has answered with rows while a contribution waits for review
C22_Witness ==
  /\ IsSearch
  /\ resp.total_results >= 1
  /\ \E n \in ContributedIds : texts[n].status = "pending"

(***************************************************************************)
(* SpecInterleaved: one search request taken statement by statement, with  *)
(* the moderation requests of other browsers committing in between.  Each  *)
(* cursor.execute of search() reads the store as the last commit left it:  *)
(* the handler opens no transaction around its statements, sqlite3 opens   *)
(* none for a SELECT, and psycopg2 runs at READ COMMITTED, where every     *)
(* statement takes its own snapshot.  While the request is under way resp  *)
(* holds what it has computed so far.                                      *)
(***************************************************************************)
InterleavedQueries == { K_izaga, Q_izaga_ubuntu, Q_a }

InterleavedModIds == {1, 2} \cup ((Len(sample_texts) + 1)..Len(texts))

MaxInterleavedTexts == 6

\* a search request is between two of its statements
InFlight == resp.kind \in {"search_counted", "search_fetched"}

\* search() up to and including SELECT COUNT(*)
SearchCount(method, raw, page) ==
  LET query == RequestQuery(method, raw) IN
  /\ ~InFlight
  /\ query # <<>>
  /\ resp' = [ Blank("search_counted") EXCEPT
                 !.query = query,
                 !.page = page,
                 !.total_results = Cardinality(Selected(texts, query)),
                 !.is_category_search = CategoryQuery(query) # NoCategory,
                 !.store_queries = 1 ]
  /\ UNCHANGED texts

\* the SELECT of the page and the loop over its rows; a category search is
\* over with it
SearchFetch ==
  /\ resp.kind = "search_counted"
  /\ resp' = [ resp EXCEPT
                 !.kind = IF resp.is_category_search
                          THEN "search" ELSE "search_fetched",
                 !.results = FetchRows(texts, Selected(texts, resp.query),
                                       resp.page),
                 !.total_pages = TotalPages(resp.total_results),
                 !.store_queries = 2 ]
  /\ UNCHANGED texts

\* total_occurrences = count_search_occurrences(query), on its own connection
SearchOccurrences ==
  /\ resp.kind = "search_fetched"
  /\ resp' = [ resp EXCEPT
                 !.kind = "search",
                 !.total_occurrences =
                   count_search_occurrences(texts, resp.query),
                 !.store_queries = 3 ]
  /\ UNCHANGED texts

\* manager_approve / manager_reject of another browser, committed while the
\* search is under way; its answer goes to that browser
ModerateMeanwhile(s, text_id, status) ==
  /\ InFlight
  /\ LoggedIn(s) /\ IsManager(s)
  /\ texts' = UpdateStatus(texts, text_id, status)
  /\ UNCHANGED resp

NextInterleaved ==
  \/ \E s \in Contributors : ~InFlight /\ Contribute(s, FormKing, MaxInterleavedTexts)
       /\ UNCHANGED accounts
  \/ \E s \in Sessions, text_id \in InterleavedModIds :
       ~InFlight /\ ManagerApprove(s, text_id)
       /\ UNCHANGED accounts
  \/ \E s \in Sessions, text_id \in InterleavedModIds :
       ~InFlight /\ ManagerReject(s, text_id)
       /\ UNCHANGED accounts
  \/ \E method \in Methods, raw \in InterleavedQueries : SearchCount(method, raw, 1)
       /\ UNCHANGED accounts
  \/ SearchFetch /\ UNCHANGED accounts
  \/ SearchOccurrences /\ UNCHANGED accounts
  \/ \E s \in Sessions, text_id \in InterleavedModIds :
       ModerateMeanwhile(s, text_id, "approved")
       /\ UNCHANGED accounts
  \/ \E s \in Sessions, text_id \in InterleavedModIds :
       ModerateMeanwhile(s, text_id, "rejected")
       /\ UNCHANGED accounts

SpecInterleaved == Init /\ [][NextInterleaved]_vars

(***************************************************************************)
(* C23.  The first page of a search holds at least min(10, total_results)  *)
(* rows, also when a manager_approve or a manager_reject commits between   *)
(* the COUNT and the SELECT of the page.                                   *)
(* Fails: the two statements read the store one after the other, each as   *)
(* the last commit left it; a rejection committed in between takes a row   *)
(* away that the COUNT has counted.                                        *)
(***************************************************************************)
C23_FetchNotFewerThanCounted ==
  (resp.kind \in {"search_fetched", "search"} /\ resp.page = 1) =>
    Len(resp.results) >= Min(results_per_page, resp.total_results)

(***************************************************************************)
(* SpecConnections: the handlers that open a store connection, while the   *)
(* store may fail under them.  connections counts the connections a        *)
(* finished request has left open.  Every handler but register() runs its  *)
(* statements inside try ... finally: cursor.close(); conn.close(), and    *)
(* calls get_db_connection() before the try, where a failure opens         *)
(* nothing.                                                                *)
(***************************************************************************)
MaxUsers == 5

MaxOpen == 2

MaxConnectionsTexts == 6

\* the store failing under a handler: at get_db_connection, or at a
\* statement or the commit inside its try
StoreFaults == {"none", "connection", "statement"}

ConnectionsModIds == {1} \cup ((Len(sample_texts) + 1)..(Len(texts) + 1))

\* contribute() while the store may fail; finally closes the connection
ContributeFaulty(s, form, cap, fault) ==
  IF fault = "none" \/ ~LoggedIn(s) \/ ~RequiredFilled(form)
  THEN Contribute(s, form, cap)
  ELSE /\ Len(texts) < cap
       /\ resp' = Blank("error")
       /\ UNCHANGED texts

\* manager_approve() while the store may fail; finally closes the connection
ManagerApproveFaulty(s, text_id, fault) ==
  IF fault = "none" \/ ~(LoggedIn(s) /\ IsManager(s))
  THEN ManagerApprove(s, text_id)
  ELSE resp' = Blank("error") /\ UNCHANGED texts

\* manager_reject() while the store may fail; finally closes the connection
ManagerRejectFaulty(s, text_id, fault) ==
  IF fault = "none" \/ ~(LoggedIn(s) /\ IsManager(s))
  THEN ManagerReject(s, text_id)
  ELSE resp' = Blank("error") /\ UNCHANGED texts

\* @login_required detail(text_id): except answers a failing statement with
\* the redirect to the search page, finally closes the connection
Detail(logged_in, text_id, fault) ==
  /\ resp' = IF ~logged_in THEN Blank("login")
             ELSE IF fault = "connection" THEN Blank("error")
             ELSE IF fault = "statement" \/ text_id \notin 1..Len(texts)
                  THEN Blank("search_redirect")
                  ELSE [ Blank("detail") EXCEPT
                           !.results = <<ResultRow(texts, text_id)>> ]
  /\ UNCHANGED texts

NextConnections ==
  \/ \E form \in RegisterForms, fault \in RegisterFaults :
       connections < MaxOpen /\ Register(form, fault, MaxUsers)
  \/ \E s \in Contributors, fault \in StoreFaults :
       ContributeFaulty(s, FormKing, MaxConnectionsTexts, fault)
       /\ UNCHANGED accounts
  \/ \E s \in Sessions, text_id \in ConnectionsModIds, fault \in StoreFaults :
       ManagerApproveFaulty(s, text_id, fault)
       /\ UNCHANGED accounts
  \/ \E s \in Sessions, text_id \in ConnectionsModIds, fault \in StoreFaults :
       ManagerRejectFaulty(s, text_id, fault)
       /\ UNCHANGED accounts
  \/ \E logged_in \in BOOLEAN, method \in Methods, raw \in StatsQueries,
        fault \in SearchFaults : SearchFaulty(logged_in, method, raw, 1, fault)
       /\ UNCHANGED accounts
  \/ \E logged_in \in BOOLEAN, scan \in ScanOrders, fault \in StatsFaults :
       Statistics(logged_in, scan, fault)
       /\ UNCHANGED accounts
  \/ \E logged_in \in BOOLEAN, text_id \in ConnectionsModIds, fault \in StoreFaults :
       Detail(logged_in, text_id, fault)
       /\ UNCHANGED accounts

SpecConnections == Init /\ [][NextConnections]_vars

(***************************************************************************)
(* C24.  No request leaves a store connection open when it has finished,   *)
(* whether it succeeds, returns early or a statement of it raises.         *)
(* Fails: register() closes its connection by a conn.close() on each of    *)
(* its two returns and has no try / finally, so a SELECT, INSERT or commit *)
(* that raises leaves the connection open.                                 *)
(***************************************************************************)
C24_NoConnectionLeftOpen == connections = 0

(***************************************************************************)
(* init_database() and the scripts that call it.  The function runs its    *)
(* statements on one connection and commits once; except prints the error  *)
(* and rolls back; there is no return statement, so the call evaluates to  *)
(* None whatever happened.                                                 *)
(***************************************************************************)
\* the store failing under init_database(): at get_db_connection, at a
\* statement before the commit, at the commit, or at the SELECT of the status
\* counts that follows the commit
InitFaults == {"none", "connection", "statement", "commit", "status_counts"}

\* mutant: the sample texts inserted again on every run
init_database_Reseeding(rel_users, rel_texts, fault) ==
  IF fault \in {"connection", "statement", "commit"}
  THEN [ users |-> rel_users, texts |-> rel_texts, printed |-> "error",
         returned |-> "None" ]
  ELSE [ users |-> IF Len(rel_users) = 0 THEN users_data ELSE rel_users,
         texts |-> rel_texts \o sample_texts,
         printed |-> IF fault = "none" THEN "initialized" ELSE "error",
         returned |-> "None" ]

\* init_database(): the store it leaves, what it prints, what it returns
init_database(rel_users, rel_texts, fault) ==
  IF fault \in {"connection", "statement", "commit"}
  THEN [ users |-> rel_users, texts |-> rel_texts, printed |-> "error",
         returned |-> "None" ]
  ELSE [ users |-> IF Len(rel_users) = 0 THEN users_data ELSE rel_users,
         texts |-> IF Len(rel_texts) = 0 THEN sample_texts ELSE rel_texts,
         printed |-> IF fault = "none" THEN "initialized" ELSE "error",
         returned |-> "None" ]

\* a run of init_database(), as the import of app.py makes one
InitDatabase(fault) ==
  LET out == init_database(users, texts, fault) IN
  /\ users' = out.users
  /\ texts' = out.texts
  /\ resp' = [ kind |-> "init_database", fault |-> fault,
               printed |-> out.printed, returned |-> out.returned ]
  /\ UNCHANGED <<session, connections>>

\* bool(value) of what init_database() returned
Truthy(value) == value = "True"

\* what is typed at "Do you want to continue? (y/N): "
Answers == { <<"y">>, <<" ","Y"," ">>, <<"n">>, <<"y","e","s">>, <<>> }

\* safe_init_database() of safe_init_db.py
SafeInitDatabase(answer, fault) ==
  IF LowerStr(Strip(answer)) # <<"y">>
  THEN /\ resp' = [ kind |-> "safe_init_database", confirmed |-> FALSE,
                    fault |-> "none", printed |-> "cancelled",
                    returned |-> "False" ]
       /\ UNCHANGED <<users, texts, session, connections>>
  ELSE LET out == init_database(users, texts, fault)
           success == out.returned
       IN  /\ users' = out.users
           /\ texts' = out.texts
           /\ resp' = [ kind |-> "safe_init_database", confirmed |-> TRUE,
                        fault |-> fault,
                        printed |-> IF Truthy(success) THEN "success"
                                    ELSE "failed",
                        returned |-> success ]
           /\ UNCHANGED <<session, connections>>

\* reset_database() of reset_database.py: the SQLite file removed, then
\* init_database()
ResetDatabase(fault) ==
  LET out == init_database(<<>>, <<>>, fault) IN
  /\ users' = out.users
  /\ texts' = out.texts
  /\ resp' = [ kind |-> "reset_database", fault |-> fault,
               printed |-> out.printed, returned |-> out.returned ]
  /\ UNCHANGED <<session, connections>>

(***************************************************************************)
(* SpecInit: a new store, the runs of init_database (at the start of the   *)
(* application and from the scripts), and between them registrations,      *)
(* contributions of the default user and moderation.                       *)
(***************************************************************************)
MaxInitUsers == 4

MaxInitTexts == 6

InitEmpty ==
  /\ texts = <<>>
  /\ users = <<>>
  /\ resp = Blank("none")
  /\ session = NoSession
  /\ connections = 0

InitModIds == {1, Len(texts)}

NextInit ==
  \/ \E fault \in InitFaults : InitDatabase(fault)
  \/ \E answer \in Answers, fault \in InitFaults : SafeInitDatabase(answer, fault)
  \/ \E fault \in InitFaults : ResetDatabase(fault)
  \/ Register(RegThandi, "none", MaxInitUsers)
  \/ /\ UserSession.user_id <= Len(users)
     /\ Contribute(UserSession, FormKing, MaxInitTexts)
     /\ UNCHANGED accounts
  \/ \E text_id \in InitModIds : ManagerApprove(ManagerSession, text_id)
       /\ ManagerSession.user_id <= Len(users)
       /\ UNCHANGED accounts
  \/ \E text_id \in InitModIds : ManagerReject(ManagerSession, text_id)
       /\ ManagerSession.user_id <= Len(users)
       /\ UNCHANGED accounts

SpecInit == InitEmpty /\ [][NextInit]_vars

\* a run of init_database has ended, by itself or inside safe_init_database
IsInitRun ==
  \/ resp.kind = "init_database"
  \/ resp.kind = "safe_init_database" /\ resp.confirmed

(***************************************************************************)
(* C25.  A run of init_database deletes and alters nothing: the users and  *)
(* the texts a store holds are left as they are; the default users are     *)
(* inserted only into an empty users relation and the sample texts only    *)
(* into an empty texts relation; and a run on the store that a run without *)
(* error has left changes nothing.                                         *)
(***************************************************************************)
C25_InitKeepsData ==
  [][IsInitRun' =>
       /\ users # <<>> => users' = users
       /\ texts # <<>> => texts' = texts
       /\ users' # users => users = <<>> /\ users' = users_data
       /\ texts' # texts => texts = <<>> /\ texts' = sample_texts
       /\ resp'.fault = "none" =>
            /\ init_database(users', texts', "none").users = users'
            /\ init_database(users', texts', "none").texts = texts']_vars

\* init_database has run without error on a store that holds a registered
\* user, a contribution and a rejected sample
C25_Witness ==
  /\ IsInitRun
  /\ resp.fault = "none"
  /\ Len(users) > Len(users_data)
  /\ Len(texts) > Len(sample_texts)
  /\ texts[1].status = "rejected"

(***************************************************************************)
(* C26.  When the user confirms and init_database runs without error,      *)
(* safe_init_database returns a true value and reports success; it reports *)
(* failure only when the initialization failed.                            *)
(* Fails: init_database has no return statement, so success is None:       *)
(* safe_init_database prints "Database initialization failed." and returns *)
(* None after every run, the ones without error included.                  *)
(***************************************************************************)
C26_SafeInitReportsOutcome ==
  resp.kind = "safe_init_database" =>
    /\ (resp.confirmed /\ resp.fault = "none") =>
         Truthy(resp.returned) /\ resp.printed = "success"
    /\ resp.printed = "failed" => resp.fault # "none"

(***************************************************************************)
(* C27.  manager_approve and manager_reject of an identifier change the    *)
(* status of that record and nothing else: no other field of it, no other  *)
(* record, and not the number of records; for an identifier that no record *)
(* has, the relation stays as it is.                                       *)
(***************************************************************************)
C27_ModerationChangesStatusOnly ==
  [][\A s \in Sessions, text_id \in ModIds :
       (ManagerApprove(s, text_id) \/ ManagerReject(s, text_id)) =>
         /\ Len(texts') = Len(texts)
         /\ \A n \in 1..Len(texts) :
              IF n = text_id
              THEN texts'[n] = [texts[n] EXCEPT !.status = texts'[n].status]
              ELSE texts'[n] = texts[n]
         /\ text_id \notin 1..Len(texts) => texts' = texts]_vars

\* the first sample has been rejected while a contribution still waits
C27_Witness ==
  /\ resp.kind = "manager_pending"
  /\ texts[1].status = "rejected"
  /\ \E n \in ContributedIds : texts[n].status = "pending"

(***************************************************************************)
(* SpecAccounts: one browser.  It registers, logs in and out, and sends    *)
(* its contributions and its moderation requests with the session cookie   *)
(* that login has set.                                                     *)
(***************************************************************************)
MaxAccountsUsers == 5

MaxAccountsTexts == 6

AccountsModIds == {1} \cup ((Len(sample_texts) + 1)..(Len(texts) + 1))

NextAccounts ==
  \/ \E form \in RegisterForms : Register(form, "none", MaxAccountsUsers)
  \/ \E form \in LoginForms : Login(form)
  \/ Logout
  \/ Contribute(session, FormKing, MaxAccountsTexts) /\ UNCHANGED accounts
  \/ \E text_id \in AccountsModIds :
       ManagerApprove(session, text_id) /\ UNCHANGED accounts
  \/ \E text_id \in AccountsModIds :
       ManagerReject(session, text_id) /\ UNCHANGED accounts

SpecAccounts == Init /\ [][NextAccounts]_vars

\* the session is the one login sets for a row of users
SessionOfUser ==
  /\ session.user_id \in 1..Len(users)
  /\ session.role = users[session.user_id].role

(***************************************************************************)
(* C28.  The status of a record changes only in a request of a session     *)
(* whose role is manager or admin: a request without a user, or of a user  *)
(* of role user, leaves every record of texts as it is; and every user     *)
(* created through register has the role user, so that no registered user  *)
(* can moderate.                                                           *)
(***************************************************************************)
C28_OnlyManagersModerate ==
  [][/\ (\E n \in 1..Len(texts) : texts'[n] # texts[n]) =>
          /\ SessionOfUser
          /\ users[session.user_id].role \in {"manager", "admin"}
     /\ (session = NoSession \/ session.role = "user") =>
          \A n \in 1..Len(texts) : texts'[n] = texts[n]
     /\ LoggedIn(session) => SessionOfUser
     /\ \A i \in (Len(users_data) + 1)..Len(users') : users'[i].role = "user"]_vars

\* a registered user has logged in and contributed, and a moderation request
\* of that session has been sent home with the contribution still pending
C28_Witness ==
  /\ session.user_id > Len(users_data)
  /\ resp.kind = "home"
  /\ \E n \in ContributedIds :
       texts[n].user_id = session.user_id /\ texts[n].status = "pending"

(***************************************************************************)
(* SpecWildcards: the store of init_database, contributions, moderation,   *)
(* and searches whose query holds a character that LIKE reads as a         *)
(* wildcard: search() puts the query between two % and binds it as the     *)
(* pattern, without an ESCAPE clause.                                      *)
(***************************************************************************)
Q_underscore == <<"_">>
Q_percent == <<"%">>
Q_i_aga == <<"i","_","a","g","a">>

WildcardQueries == { Q_underscore, Q_percent, Q_i_aga, Q_a, Q_zzz }

MaxWildcardTexts == 6

WildcardModIds == {1, 2} \cup ((Len(sample_texts) + 1)..Len(texts))

NextWildcards ==
  \/ \E s \in Contributors : Contribute(s, FormKing, MaxWildcardTexts)
       /\ UNCHANGED accounts
  \/ \E s \in Sessions, text_id \in WildcardModIds : ManagerApprove(s, text_id)
       /\ UNCHANGED accounts
  \/ \E s \in Sessions, text_id \in WildcardModIds : ManagerReject(s, text_id)
       /\ UNCHANGED accounts
  \/ \E logged_in \in BOOLEAN, method \in Methods, raw \in WildcardQueries :
       Search(logged_in, method, raw, 1)
       /\ UNCHANGED accounts

SpecWildcards == Init /\ [][NextWildcards]_vars

(***************************************************************************)
(* C29.  In the response of a non-category search the occurrence count and *)
(* the result count agree on whether the term was found: total_occurrences *)
(* is at least 1 exactly when total_results is at least 1, also for a      *)
(* query that holds % or _.                                                *)
(* Fails: the WHERE clause reads % and _ of the query as wildcards, while  *)
(* count_search_occurrences counts the query as it is written: "_" selects *)
(* every approved record and occurs in none.                               *)
(***************************************************************************)
C29_OccurrencesIffResults ==
  IsTextSearch => (resp.total_occurrences >= 1 <=> resp.total_results >= 1)

====
